---- MODULE Spec2Model ----
(***************************************************************************)
(* Model of the battery simulator: the Battery engine (src/battery.py),    *)
(* the dispatch strategies (src/battery/applications.py) and the sizing    *)
(* routine (src/battery/dimensioning.py).                                  *)
(*                                                                         *)
(* Python floats are modelled as exact rationals [n, d] in lowest terms,   *)
(* extended with the IEEE special values the code can produce by dividing  *)
(* by a zero capacity: +inf = 1/0, -inf = -1/0 and nan = 0/0.  Timestamps  *)
(* are minutes counted from pd.datetime(2020,1,1,0,0).                     *)
(***************************************************************************)
EXTENDS Integers, Sequences, FiniteSets, TLC

VARIABLES battery, op, ret, initial_soc

vars == <<battery, op, ret, initial_soc>>

\* ------------------------------------------------------------------------
\* Bounds of the model

\* Longest history (records since the last reset) the engine actions build.
MaxLen == 3

\* Longest input series handed to a dispatch strategy or to dimensioning.
MaxCurve == 2

\* ------------------------------------------------------------------------
\* Float arithmetic

Abs(i) == IF i < 0 THEN -i ELSE i

Sgn(i) == IF i < 0 THEN -1 ELSE IF i > 0 THEN 1 ELSE 0

RECURSIVE GCD(_, _)
GCD(a, b) == IF b = 0 THEN a ELSE GCD(b, a % b)

\* n/d, d > 0, in lowest terms
Q(n, d) == LET g == GCD(Abs(n), d) IN [n |-> Sgn(n) * (Abs(n) \div g), d |-> d \div g]

R(i) == [n |-> i, d |-> 1]

Zero == R(0)
One == R(1)
Half == Q(1, 2)
NaN == [n |-> 0, d |-> 0]
PosInf == [n |-> 1, d |-> 0]
NegInf == [n |-> -1, d |-> 0]

IsNaN(x) == x.d = 0 /\ x.n = 0
IsInf(x) == x.d = 0 /\ x.n # 0
IsFinite(x) == x.d > 0

neg(x) == [n |-> -x.n, d |-> x.d]

abs(x) == [n |-> Abs(x.n), d |-> x.d]

\* x * y; inf * 0 = nan.  Finite operands are cross-cancelled before multiplying.
mul(x, y) ==
    IF IsFinite(x) /\ IsFinite(y)
    THEN LET g1 == GCD(Abs(x.n), y.d)
             g2 == GCD(Abs(y.n), x.d)
         IN  [n |-> (x.n \div g1) * (y.n \div g2),
              d |-> (x.d \div g2) * (y.d \div g1)]
    ELSE [n |-> Sgn(x.n) * Sgn(y.n), d |-> 0]

\* x / y as numpy float64 divides: x / 0 is +-inf (nan for 0 / 0), never an exception.
\* The only zero divisor the program produces is a capacity of +0.0.
div(x, y) ==
    IF IsNaN(x) \/ IsNaN(y) THEN NaN
    ELSE IF IsInf(y) THEN (IF IsInf(x) THEN NaN ELSE Zero)
    ELSE IF y.n = 0 THEN [n |-> Sgn(x.n), d |-> 0]
    ELSE IF IsInf(x) THEN [n |-> Sgn(x.n) * Sgn(y.n), d |-> 0]
    ELSE mul(x, [n |-> Sgn(y.n) * y.d, d |-> Abs(y.n)])

\* x + y; inf + (-inf) = nan
add(x, y) ==
    IF IsNaN(x) \/ IsNaN(y) THEN NaN
    ELSE IF IsInf(x) /\ IsInf(y) THEN (IF x.n = y.n THEN x ELSE NaN)
    ELSE IF IsInf(x) THEN x
    ELSE IF IsInf(y) THEN y
    ELSE LET g == GCD(x.d, y.d)
             l == (x.d \div g) * y.d
         IN  Q(x.n * (l \div x.d) + y.n * (l \div y.d), l)

sub(x, y) == add(x, neg(y))

\* x < y; every comparison with nan is false
lt(x, y) ==
    IF IsNaN(x) \/ IsNaN(y) THEN FALSE
    ELSE IF IsFinite(x) /\ IsFinite(y)
    THEN LET g == GCD(x.d, y.d)
             l == (x.d \div g) * y.d
         IN  x.n * (l \div x.d) < y.n * (l \div y.d)
    ELSE (IF IsInf(x) THEN x.n ELSE 0) < (IF IsInf(y) THEN y.n ELSE 0)

gt(x, y) == lt(y, x)

le(x, y) == ~IsNaN(x) /\ ~IsNaN(y) /\ ~lt(y, x)

ge(x, y) == le(y, x)

\* Python's builtin min(a, b) and max(a, b): the first argument unless the second
\* is strictly smaller (larger), so a nan first argument is returned as it is.
min2(a, b) == IF lt(b, a) THEN b ELSE a

max2(a, b) == IF gt(b, a) THEN b ELSE a

\* np.ceil
ceil(x) ==
    IF ~IsFinite(x) THEN x
    ELSE IF x.n >= 0 THEN R((x.n + x.d - 1) \div x.d)
    ELSE R(-((-x.n) \div x.d))

\* np.sqrt of a rational whose numerator and denominator are perfect squares
ISqrt(k) == CHOOSE r \in 0..k : r * r = k

sqrt(x) == [n |-> ISqrt(x.n), d |-> ISqrt(x.d)]

Last(s) == s[Len(s)]

\* ------------------------------------------------------------------------
\* Battery (src/battery.py)

\* Messages printed by the engine when a request is clamped
MsgExceeds == "Specified energy exceeds technical limit. Amount is reduced."
MsgNegative == "Specified energy must be a positive value. Value set to 0."

\* Battery.__init__.  Besides the object's fields the record carries two
\* history fields of the model: calls, the number of engine calls since
\* construction or the last reset(), and stdout, what the last engine call printed.
init(max_power, net_capacity, round_trip_efficiency, initial_soc_arg, timestep_minutes_arg) ==
    [power |-> max_power,
     capacity |-> net_capacity,
     eff_chg |-> sqrt(round_trip_efficiency),
     eff_dch |-> sqrt(round_trip_efficiency),
     soc |-> Half,
     timestep_minutes |-> timestep_minutes_arg,
     power_curve |-> <<>>,
     soc_curve |-> <<>>,
     datetime_curve |-> <<>>,
     energy_curve |-> <<>>,
     start_datetime |-> 0,
     calls |-> 0,
     stdout |-> ""]

\* reset as it would be if it forgot to clear the timestamps
reset_keeps_datetime(self) ==
    [self EXCEPT !.power_curve = <<>>,
                 !.soc_curve = <<>>,
                 !.energy_curve = <<>>,
                 !.soc = Half,
                 !.calls = 0]

\* Battery.reset
reset(self) ==
    [self EXCEPT !.power_curve = <<>>,
                 !.soc_curve = <<>>,
                 !.energy_curve = <<>>,
                 !.datetime_curve = <<>>,
                 !.soc = Half,
                 !.calls = 0]

\* get_battery_curves as it would be if the soc and power columns were swapped
get_battery_curves_swapped(self) ==
    [i \in 1..Len(self.datetime_curve) |->
        [datetime |-> self.datetime_curve[i],
         soc |-> self.power_curve[i],
         power_output |-> self.soc_curve[i],
         energy_output |-> self.energy_curve[i]]]

\* Battery.get_battery_curves: the rows of the returned dataframe
get_battery_curves(self) ==
    [i \in 1..Len(self.datetime_curve) |->
        [datetime |-> self.datetime_curve[i],
         soc |-> self.soc_curve[i],
         power_output |-> self.power_curve[i],
         energy_output |-> self.energy_curve[i]]]

\* next_datetime as it would be if every record got the start timestamp
next_datetime_always_start(self) == self.start_datetime

\* The timestamp the next record gets (battery.py 90-94 and 183-187)
next_datetime(self) ==
    IF Len(self.datetime_curve) = 0
    THEN self.start_datetime
    ELSE Last(self.datetime_curve) + self.timestep_minutes

\* The charging limit as it would be if the soc ceiling were left out
max_possible_charging_energy_power_only(self) ==
    div(mul(mul(self.power, self.eff_chg), R(self.timestep_minutes)), R(60))

\* max_possible_charging_energy (battery.py 64-71)
max_possible_charging_energy(self) ==
    LET max_possible_charging_energy_soc ==
            div(mul(sub(One, self.soc), self.capacity), self.eff_chg)
        max_possible_charging_energy_power ==
            div(mul(mul(self.power, self.eff_chg), R(self.timestep_minutes)), R(60))
    IN  min2(max_possible_charging_energy_soc, max_possible_charging_energy_power)

\* charge_with_energy as it would be if it recorded the soc after updating it
charge_with_energy_soc_after(self, energy, warnings_on) ==
    LET limit == max_possible_charging_energy(self)
        charging_energy ==
            IF gt(energy, limit) THEN limit
            ELSE IF lt(energy, Zero) THEN Zero
            ELSE energy
        charging_power == div(mul(charging_energy, R(60)), R(self.timestep_minutes))
        soc_after == add(self.soc, div(mul(charging_energy, self.eff_chg), self.capacity))
    IN  [self EXCEPT
            !.datetime_curve = Append(@, next_datetime(self)),
            !.power_curve = Append(@, charging_power),
            !.energy_curve = Append(@, div(mul(charging_power, R(self.timestep_minutes)), R(60))),
            !.soc_curve = Append(@, soc_after),
            !.soc = soc_after,
            !.calls = @ + 1,
            !.stdout = ""]

\* Battery.charge_with_energy
charge_with_energy(self, energy, warnings_on) ==
    LET specified_charging_energy == energy
        limit == max_possible_charging_energy(self)
        charging_energy ==
            IF gt(specified_charging_energy, limit) THEN limit
            ELSE IF lt(specified_charging_energy, Zero) THEN Zero
            ELSE specified_charging_energy
        printed ==
            IF ~warnings_on THEN ""
            ELSE IF gt(specified_charging_energy, limit) THEN MsgExceeds
            ELSE IF lt(specified_charging_energy, Zero) THEN MsgNegative
            ELSE ""
        charging_power == div(mul(charging_energy, R(60)), R(self.timestep_minutes))
    IN  [self EXCEPT
            !.datetime_curve = Append(@, next_datetime(self)),
            !.power_curve = Append(@, charging_power),
            !.energy_curve = Append(@, div(mul(charging_power, R(self.timestep_minutes)), R(60))),
            !.soc_curve = Append(@, self.soc),
            !.soc = add(self.soc, div(mul(charging_energy, self.eff_chg), self.capacity)),
            !.calls = @ + 1,
            !.stdout = printed]

\* Battery.charge_with_power
charge_with_power(self, power, warnings_on) ==
    LET energy == div(mul(power, R(self.timestep_minutes)), R(60))
    IN  charge_with_energy(self, energy, warnings_on)

\* Battery.charge_max_possible
charge_max_possible(self) == charge_with_power(self, self.power, FALSE)

\* max_possible_discharging_energy (battery.py 157-164)
max_possible_discharging_energy(self) ==
    LET max_possible_discharging_energy_soc ==
            mul(mul(self.soc, self.capacity), self.eff_dch)
        max_possible_discharging_energy_power ==
            div(mul(self.power, R(self.timestep_minutes)), R(60))
    IN  min2(max_possible_discharging_energy_soc, max_possible_discharging_energy_power)

\* discharge_with_energy as it would be if it left the energy record out
discharge_with_energy_no_energy_record(self, energy, warnings_on) ==
    LET limit == max_possible_discharging_energy(self)
        discharging_energy ==
            IF gt(energy, limit) THEN limit
            ELSE IF lt(energy, Zero) THEN Zero
            ELSE energy
        discharging_power == div(mul(discharging_energy, R(60)), R(self.timestep_minutes))
    IN  [self EXCEPT
            !.datetime_curve = Append(@, next_datetime(self)),
            !.power_curve = Append(@, neg(discharging_power)),
            !.soc_curve = Append(@, self.soc),
            !.soc = sub(self.soc, div(discharging_energy, mul(self.capacity, self.eff_dch))),
            !.calls = @ + 1,
            !.stdout = ""]

\* Battery.discharge_with_energy
discharge_with_energy(self, energy, warnings_on) ==
    LET specified_discharging_energy == energy
        limit == max_possible_discharging_energy(self)
        discharging_energy ==
            IF gt(specified_discharging_energy, limit) THEN limit
            ELSE IF lt(specified_discharging_energy, Zero) THEN Zero
            ELSE specified_discharging_energy
        printed ==
            IF ~warnings_on THEN ""
            ELSE IF gt(specified_discharging_energy, limit) THEN MsgExceeds
            ELSE IF lt(specified_discharging_energy, Zero) THEN MsgNegative
            ELSE ""
        discharging_power == div(mul(discharging_energy, R(60)), R(self.timestep_minutes))
    IN  [self EXCEPT
            !.datetime_curve = Append(@, next_datetime(self)),
            !.power_curve = Append(@, neg(discharging_power)),
            !.energy_curve = Append(@, div(mul(neg(discharging_power), R(self.timestep_minutes)), R(60))),
            !.soc_curve = Append(@, self.soc),
            !.soc = sub(self.soc, div(discharging_energy, mul(self.capacity, self.eff_dch))),
            !.calls = @ + 1,
            !.stdout = printed]

\* Battery.discharge_with_power
discharge_with_power(self, power, warnings_on) ==
    LET energy == div(mul(power, R(self.timestep_minutes)), R(60))
    IN  discharge_with_energy(self, energy, warnings_on)

\* Battery.discharge_max_possible
discharge_max_possible(self) == discharge_with_power(self, self.power, FALSE)

\* Battery.do_nothing
do_nothing(self) == charge_with_power(self, Zero, FALSE)

\* Battery.get_efc
RECURSIVE sum_abs_diffs(_, _)
sum_abs_diffs(soc_curve, k) ==
    IF k = 0 THEN Zero
    ELSE add(sum_abs_diffs(soc_curve, k - 1), abs(sub(soc_curve[k + 1], soc_curve[k])))

\* get_efc as it would be if the pair formed with the last record were counted
get_efc_all_pairs(self) ==
    IF Len(self.soc_curve) < 2 THEN Zero
    ELSE div(sum_abs_diffs(self.soc_curve, Len(self.soc_curve) - 1), R(2))

get_efc(self) ==
    IF Len(self.soc_curve) < 2 THEN Zero
    ELSE div(sum_abs_diffs(self.soc_curve, Len(self.soc_curve) - 2), R(2))

\* ------------------------------------------------------------------------
\* Applications (src/battery/applications.py)

\* What a public operation hands back: the exception it raised (if any), the
\* rows of the dataframe it returned, and the figures of the string it returned.
Returned(raised, df, report) == [raised |-> raised, df |-> df, report |-> report]

Nothing == Returned("", <<>>, <<>>)

\* builtin min / max over a non-empty series
RECURSIVE min_of(_)
min_of(s) == IF Len(s) = 1 THEN s[1] ELSE min2(min_of(SubSeq(s, 1, Len(s) - 1)), Last(s))

RECURSIVE max_of(_)
max_of(s) == IF Len(s) = 1 THEN s[1] ELSE max2(max_of(SubSeq(s, 1, Len(s) - 1)), Last(s))

\* Pick({e(v) : v \in {x}}) is e(x) with x evaluated once and its value named v,
\* the way a Python local variable holds a value.
Pick(S) == CHOOSE x \in S : TRUE

\* One pass of the loop of arbitrage (applications.py 37-61)
arbitrage_row(b, transaction_type, list_price) ==
    [datetime |-> Last(b.datetime_curve),
     transaction_type |-> transaction_type,
     price_eur_per_MWh |-> list_price,
     volume_MWh |-> div(Last(b.energy_curve), R(1000)),
     revenue_eur |-> div(mul(neg(Last(b.energy_curve)), list_price), R(1000))]

\* The loop body of arbitrage as it would be if a price between the thresholds
\* made no battery record
arbitrage_step_skips(st, list_price, buy_price, sell_price) ==
    IF le(list_price, buy_price)
    THEN Pick({[battery |-> b, df |-> Append(st.df, arbitrage_row(b, "buy", list_price))] :
                b \in {charge_max_possible(st.battery)}})
    ELSE IF ge(list_price, sell_price)
    THEN Pick({[battery |-> b, df |-> Append(st.df, arbitrage_row(b, "sell", list_price))] :
                b \in {discharge_max_possible(st.battery)}})
    ELSE st

arbitrage_step(st, list_price, buy_price, sell_price) ==
    IF le(list_price, buy_price)
    THEN Pick({[battery |-> b, df |-> Append(st.df, arbitrage_row(b, "buy", list_price))] :
                b \in {charge_max_possible(st.battery)}})
    ELSE IF ge(list_price, sell_price)
    THEN Pick({[battery |-> b, df |-> Append(st.df, arbitrage_row(b, "sell", list_price))] :
                b \in {discharge_max_possible(st.battery)}})
    ELSE [battery |-> do_nothing(st.battery), df |-> st.df]

RECURSIVE arbitrage_loop(_, _, _, _, _)
arbitrage_loop(st, price_list, i, buy_price, sell_price) ==
    IF i > Len(price_list) THEN st
    ELSE Pick({arbitrage_loop(nxt, price_list, i + 1, buy_price, sell_price) :
                nxt \in {arbitrage_step(st, price_list[i], buy_price, sell_price)}})

\* arbitrage as it would be if equal thresholds were let through
arbitrage_equal_allowed(self, price_list, buy_price, sell_price) ==
    IF gt(buy_price, sell_price)
    THEN [battery |-> self, ret |-> Returned("ValueError", <<>>, <<>>)]
    ELSE Pick({[battery |-> st.battery, ret |-> Returned("", st.df, <<>>)] :
                st \in {arbitrage_loop([battery |-> self, df |-> <<>>],
                                       price_list, 1, buy_price, sell_price)}})

\* Applications.arbitrage
arbitrage(self, price_list, buy_price, sell_price) ==
    IF ge(buy_price, sell_price)
    THEN [battery |-> self, ret |-> Returned("ValueError", <<>>, <<>>)]
    ELSE Pick({[battery |-> st.battery, ret |-> Returned("", st.df, <<>>)] :
                st \in {arbitrage_loop([battery |-> self, df |-> <<>>],
                                       price_list, 1, buy_price, sell_price)}})

\* One pass of the loop of peakshaving (applications.py 95-104)
peakshaving_row(b, load) ==
    [datetime |-> Last(b.datetime_curve),
     original_loadcurve |-> load,
     battery_power |-> Last(b.power_curve),
     new_loadcurve |-> add(load, Last(b.power_curve)),
     battery_soc |-> Last(b.soc_curve)]

\* The loop body of peakshaving as it would be if it recharged with all the
\* power the battery has
peakshaving_step_charges_max(st, load, peak_limit) ==
    Pick({[battery |-> b, df |-> Append(st.df, peakshaving_row(b, load))] :
            b \in {IF gt(load, peak_limit)
                   THEN discharge_with_power(st.battery, sub(load, peak_limit), FALSE)
                   ELSE charge_max_possible(st.battery)}})

peakshaving_step(st, load, peak_limit) ==
    Pick({[battery |-> b, df |-> Append(st.df, peakshaving_row(b, load))] :
            b \in {IF gt(load, peak_limit)
                   THEN discharge_with_power(st.battery, sub(load, peak_limit), FALSE)
                   ELSE charge_with_power(st.battery, sub(peak_limit, load), FALSE)}})

RECURSIVE peakshaving_loop(_, _, _, _)
peakshaving_loop(st, loadcurve, i, peak_limit) ==
    IF i > Len(loadcurve) THEN st
    ELSE Pick({peakshaving_loop(nxt, loadcurve, i + 1, peak_limit) :
                nxt \in {peakshaving_step(st, loadcurve[i], peak_limit)}})

\* Applications.peakshaving
peakshaving(self, loadcurve, peak_limit) ==
    Pick({[battery |-> st.battery, ret |-> Returned("", st.df, <<>>)] :
            st \in {peakshaving_loop([battery |-> [self EXCEPT !.soc = One], df |-> <<>>],
                                     loadcurve, 1, peak_limit)}})

\* Applications.loadfollowing, for two series of the same length
loadfollowing_result(ps, loadcurve, power_to_shift_up_by) ==
    [battery |-> ps.battery,
     ret |-> Returned("",
         [i \in 1..Len(ps.ret.df) |->
            [datetime |-> ps.ret.df[i].datetime,
             original_loadcurve |-> loadcurve[i],
             uncovered_loadcurve |->
                 max2(Zero, sub(ps.ret.df[i].new_loadcurve, power_to_shift_up_by)),
             battery_soc |-> ps.ret.df[i].battery_soc]], <<>>)]

loadfollowing_shifted(self, loadcurve, equivalent_peak_shaving_curve, power_to_shift_up_by) ==
    Pick({Pick({loadfollowing_result(ps, loadcurve, power_to_shift_up_by) :
                  ps \in {peakshaving(self, shifted, power_to_shift_up_by)}}) :
            shifted \in {[i \in 1..Len(loadcurve) |->
                            add(equivalent_peak_shaving_curve[i], power_to_shift_up_by)]}})

loadfollowing(self, production_curve, loadcurve) ==
    Pick({Pick({loadfollowing_shifted(self, loadcurve, equiv, shift) :
                  shift \in {abs(min_of(equiv))}}) :
            equiv \in {[i \in 1..Len(loadcurve) |-> sub(loadcurve[i], production_curve[i])]}})

\* One pass of the loop of curtailment_avoidance (applications.py 175-184)
curtailment_avoidance_row(b, production) ==
    [datetime |-> Last(b.datetime_curve),
     original_production |-> production,
     battery_power |-> Last(b.power_curve),
     new_production |-> sub(production, Last(b.power_curve)),
     battery_soc |-> Last(b.soc_curve)]

\* The loop body of curtailment_avoidance as it would be with the roles of charge
\* and discharge as in peakshaving
curtailment_avoidance_step_as_peakshaving(st, production, peak_limit) ==
    Pick({[battery |-> b, df |-> Append(st.df, curtailment_avoidance_row(b, production))] :
            b \in {IF gt(production, peak_limit)
                   THEN discharge_with_power(st.battery, sub(production, peak_limit), FALSE)
                   ELSE charge_with_power(st.battery, sub(peak_limit, production), FALSE)}})

curtailment_avoidance_step(st, production, peak_limit) ==
    Pick({[battery |-> b, df |-> Append(st.df, curtailment_avoidance_row(b, production))] :
            b \in {IF gt(production, peak_limit)
                   THEN charge_with_power(st.battery, sub(production, peak_limit), FALSE)
                   ELSE discharge_with_power(st.battery, sub(peak_limit, production), FALSE)}})

RECURSIVE curtailment_avoidance_loop(_, _, _, _)
curtailment_avoidance_loop(st, production_curve, i, peak_limit) ==
    IF i > Len(production_curve) THEN st
    ELSE Pick({curtailment_avoidance_loop(nxt, production_curve, i + 1, peak_limit) :
                nxt \in {curtailment_avoidance_step(st, production_curve[i], peak_limit)}})

\* Applications.curtailment_avoidance
curtailment_avoidance(self, production_curve, peak_limit) ==
    Pick({[battery |-> st.battery, ret |-> Returned("", st.df, <<>>)] :
            st \in {curtailment_avoidance_loop(
                        [battery |-> [self EXCEPT !.soc = Zero], df |-> <<>>],
                        production_curve, 1, peak_limit)}})

\* ------------------------------------------------------------------------
\* Dimensioning (src/battery/dimensioning.py)

\* The "very high value" the capacity is set to for the probing run
Sentinel == 1000000

\* dimensioning_resize as it would be if the battery were not reset before the
\* re-run
dimensioning_resize_no_reset(df_peakshaving, needed_power, loadcurve, peak_limit) ==
    Pick({Pick({[battery |-> final,
                 ret |-> Returned("", <<>>,
                             <<[needed_power |-> needed_power,
                                needed_capacity |-> needed_capacity,
                                efc |-> get_efc(final),
                                engine_calls |-> final.calls]>>)] :
                  final \in {peakshaving(
                                [df_peakshaving.battery EXCEPT !.capacity = needed_capacity],
                                loadcurve, peak_limit).battery}}) :
            needed_capacity \in
                {ceil(mul(sub(One, min_of([i \in 1..Len(loadcurve) |->
                                              df_peakshaving.ret.df[i].battery_soc])),
                          R(Sentinel)))}})

\* dimensioning.py 43-54: the capacity read off the probing run, and the re-run.
\* engine_calls counts the engine calls of the two passes.
dimensioning_resize(df_peakshaving, needed_power, loadcurve, peak_limit) ==
    Pick({Pick({[battery |-> final,
                 ret |-> Returned("", <<>>,
                             <<[needed_power |-> needed_power,
                                needed_capacity |-> needed_capacity,
                                efc |-> get_efc(final),
                                engine_calls |-> df_peakshaving.battery.calls + final.calls]>>)] :
                  final \in {peakshaving(
                                reset([df_peakshaving.battery EXCEPT !.capacity = needed_capacity]),
                                loadcurve, peak_limit).battery}}) :
            needed_capacity \in
                {ceil(mul(sub(One, min_of([i \in 1..Len(loadcurve) |->
                                              df_peakshaving.ret.df[i].battery_soc])),
                          R(Sentinel)))}})

\* Dimensioning.peakshaving; max() of an empty loadcurve raises ValueError
dimensioning_peakshaving(self, loadcurve, peak_limit) ==
    IF Len(loadcurve) = 0
    THEN [battery |-> self, ret |-> Returned("ValueError", <<>>, <<>>)]
    ELSE Pick({Pick({dimensioning_resize(df_peakshaving, needed_power, loadcurve, peak_limit) :
                       df_peakshaving \in
                           {peakshaving([reset(self) EXCEPT !.soc = One,
                                                            !.power = needed_power,
                                                            !.capacity = R(Sentinel)],
                                        loadcurve, peak_limit)}}) :
                 needed_power \in {ceil(sub(max_of(loadcurve), peak_limit))}})

\* Dimensioning.loadfollowing, for two arrays of the same non-zero length
dimensioning_loadfollowing_shifted(self, equivalent_peak_shaving_curve, power_to_shift_up_by) ==
    Pick({dimensioning_peakshaving(self, shifted, power_to_shift_up_by) :
            shifted \in {[i \in 1..Len(equivalent_peak_shaving_curve) |->
                            add(equivalent_peak_shaving_curve[i], power_to_shift_up_by)]}})

dimensioning_loadfollowing(self, production_curve, loadcurve) ==
    Pick({Pick({dimensioning_loadfollowing_shifted(self, equiv, shift) :
                  shift \in {abs(min_of(equiv))}}) :
            equiv \in {[i \in 1..Len(loadcurve) |-> sub(loadcurve[i], production_curve[i])]}})

\* ------------------------------------------------------------------------
\* Inputs of the model

\* Constructor calls: max_power, net_capacity, round_trip_efficiency, initial_soc,
\* timestep_minutes.  The first leaves initial_soc and timestep_minutes at their
\* defaults.
Constructions ==
    {<<R(4), R(2), Q(1, 4), Half, 60>>,
     <<R(4), R(2), Q(1, 4), One, 30>>}

\* Requested energies (kWh) and powers (kW): negative, zero, feasible, oversized
Requests == {R(-1), One, R(8)}

\* Price lists and thresholds of arbitrage
Prices == {R(10), R(50), R(100)}
Thresholds == {<<R(20), R(80)>>, <<R(80), R(20)>>, <<R(50), R(50)>>}

\* Load and production series and the peak limit
Loads == {Zero, R(4)}
Productions == {R(3)}
PeakLimits == {R(3)}

\* The series over S of length 1..k
SeqsUpTo(S, k) == UNION {[1..m -> S] : m \in 1..k}

\* A production series and a load series of the same length 1..k
SeqPairs(P, L, k) == UNION {[1..m -> P] \X [1..m -> L] : m \in 1..k}

\* ------------------------------------------------------------------------
\* The state machine: one action per public operation

Init ==
    \E c \in Constructions :
        /\ battery = init(c[1], c[2], c[3], c[4], c[5])
        /\ initial_soc = c[4]
        /\ op = "__init__"
        /\ ret = Nothing

\* An operation that appends k records is offered while the history has room for them
Room(k) == Len(battery.datetime_curve) + k <= MaxLen

Reset ==
    /\ battery' = reset(battery)
    /\ op' = "reset"
    /\ ret' = Nothing
    /\ UNCHANGED initial_soc

ChargeWithEnergy ==
    \E energy \in Requests, warnings_on \in {TRUE} :
        /\ Room(1)
        /\ battery' = charge_with_energy(battery, energy, warnings_on)
        /\ op' = "charge_with_energy"
        /\ ret' = Nothing
        /\ UNCHANGED initial_soc

ChargeWithPower ==
    \E power \in Requests, warnings_on \in {TRUE} :
        /\ Room(1)
        /\ battery' = charge_with_power(battery, power, warnings_on)
        /\ op' = "charge_with_power"
        /\ ret' = Nothing
        /\ UNCHANGED initial_soc

ChargeMaxPossible ==
    /\ Room(1)
    /\ battery' = charge_max_possible(battery)
    /\ op' = "charge_max_possible"
    /\ ret' = Nothing
    /\ UNCHANGED initial_soc

DischargeWithEnergy ==
    \E energy \in Requests, warnings_on \in {TRUE} :
        /\ Room(1)
        /\ battery' = discharge_with_energy(battery, energy, warnings_on)
        /\ op' = "discharge_with_energy"
        /\ ret' = Nothing
        /\ UNCHANGED initial_soc

DischargeWithPower ==
    \E power \in Requests, warnings_on \in {TRUE} :
        /\ Room(1)
        /\ battery' = discharge_with_power(battery, power, warnings_on)
        /\ op' = "discharge_with_power"
        /\ ret' = Nothing
        /\ UNCHANGED initial_soc

DischargeMaxPossible ==
    /\ Room(1)
    /\ battery' = discharge_max_possible(battery)
    /\ op' = "discharge_max_possible"
    /\ ret' = Nothing
    /\ UNCHANGED initial_soc

DoNothing ==
    /\ Room(1)
    /\ battery' = do_nothing(battery)
    /\ op' = "do_nothing"
    /\ ret' = Nothing
    /\ UNCHANGED initial_soc

GetBatteryCurves ==
    /\ battery' = battery
    /\ op' = "get_battery_curves"
    /\ ret' = Returned("", get_battery_curves(battery), <<>>)
    /\ UNCHANGED initial_soc

GetEfc ==
    /\ battery' = battery
    /\ op' = "get_efc"
    /\ ret' = Returned("", <<>>, <<[efc |-> get_efc(battery)]>>)
    /\ UNCHANGED initial_soc

Arbitrage ==
    \E price_list \in SeqsUpTo(Prices, MaxCurve), t \in Thresholds :
        /\ Room(Len(price_list))
        /\ LET r == arbitrage(battery, price_list, t[1], t[2])
           IN  /\ battery' = r.battery
               /\ ret' = r.ret
        /\ op' = "arbitrage"
        /\ UNCHANGED initial_soc

Peakshaving ==
    \E loadcurve \in SeqsUpTo(Loads, MaxCurve), peak_limit \in PeakLimits :
        /\ Room(Len(loadcurve))
        /\ LET r == peakshaving(battery, loadcurve, peak_limit)
           IN  /\ battery' = r.battery
               /\ ret' = r.ret
        /\ op' = "peakshaving"
        /\ UNCHANGED initial_soc

Loadfollowing ==
    \E c \in SeqPairs(Productions, Loads, MaxCurve) :
        /\ Room(Len(c[1]))
        /\ LET r == loadfollowing(battery, c[1], c[2])
           IN  /\ battery' = r.battery
               /\ ret' = r.ret
        /\ op' = "loadfollowing"
        /\ UNCHANGED initial_soc

CurtailmentAvoidance ==
    \E production_curve \in SeqsUpTo(Loads, MaxCurve), peak_limit \in PeakLimits :
        /\ Room(Len(production_curve))
        /\ LET r == curtailment_avoidance(battery, production_curve, peak_limit)
           IN  /\ battery' = r.battery
               /\ ret' = r.ret
        /\ op' = "curtailment_avoidance"
        /\ UNCHANGED initial_soc

DimensioningPeakshaving ==
    \E loadcurve \in SeqsUpTo(Loads, MaxCurve), peak_limit \in PeakLimits :
        /\ Room(Len(loadcurve))
        /\ LET r == dimensioning_peakshaving(battery, loadcurve, peak_limit)
           IN  /\ battery' = r.battery
               /\ ret' = r.ret
        /\ op' = "dimensioning.peakshaving"
        /\ UNCHANGED initial_soc

DimensioningLoadfollowing ==
    \E c \in SeqPairs(Productions, Loads, MaxCurve) :
        /\ Room(Len(c[1]))
        /\ LET r == dimensioning_loadfollowing(battery, c[1], c[2])
           IN  /\ battery' = r.battery
               /\ ret' = r.ret
        /\ op' = "dimensioning.loadfollowing"
        /\ UNCHANGED initial_soc

Next ==
    \/ Reset
    \/ ChargeWithEnergy
    \/ ChargeWithPower
    \/ ChargeMaxPossible
    \/ DischargeWithEnergy
    \/ DischargeWithPower
    \/ DischargeMaxPossible
    \/ DoNothing
    \/ Arbitrage
    \/ Peakshaving
    \/ Loadfollowing
    \/ CurtailmentAvoidance
    \/ DimensioningPeakshaving
    \/ DimensioningLoadfollowing

Spec == Init /\ [][Next]_vars

\* The engine with its two queries, without the applications
NextQueries ==
    \/ Reset
    \/ ChargeWithEnergy
    \/ ChargeWithPower
    \/ ChargeMaxPossible
    \/ DischargeWithEnergy
    \/ DischargeWithPower
    \/ DischargeMaxPossible
    \/ DoNothing
    \/ GetBatteryCurves
    \/ GetEfc

SpecQueries == Init /\ [][NextQueries]_vars

\* The battery driven by arbitrage, by single engine calls and by the
\* dimensioning that rewrites its ratings
NextArbitrage ==
    \/ Reset
    \/ ChargeWithEnergy
    \/ DischargeWithEnergy
    \/ DoNothing
    \/ Arbitrage
    \/ DimensioningPeakshaving

SpecArbitrage == Init /\ [][NextArbitrage]_vars

\* The battery driven by engine calls and dispatch strategies only: its ratings
\* stay those of its construction
NextDispatch ==
    \/ Reset
    \/ ChargeWithEnergy
    \/ DischargeWithEnergy
    \/ DoNothing
    \/ Arbitrage
    \/ Peakshaving
    \/ Loadfollowing
    \/ CurtailmentAvoidance

SpecDispatch == Init /\ [][NextDispatch]_vars

\* ------------------------------------------------------------------------
\* Properties
\*
\* A property of an operation is stated on the state the operation is called in:
\* for every reachable battery and every argument, the battery the operation
\* returns satisfies the property.

ChargeOps == {"charge_with_energy", "charge_with_power", "charge_max_possible"}
DischargeOps == {"discharge_with_energy", "discharge_with_power", "discharge_max_possible"}
EngineOps == ChargeOps \cup DischargeOps \cup {"do_nothing"}

\* The amounts the properties are stated for
Amounts == Requests \cup {Zero}

\* The battery after engine call f with amount x (the amount is not used by the
\* calls that take none)
Engine(b, f, x) ==
    CASE f = "charge_with_energy" -> charge_with_energy(b, x, TRUE)
      [] f = "charge_with_power" -> charge_with_power(b, x, TRUE)
      [] f = "charge_max_possible" -> charge_max_possible(b)
      [] f = "discharge_with_energy" -> discharge_with_energy(b, x, TRUE)
      [] f = "discharge_with_power" -> discharge_with_power(b, x, TRUE)
      [] f = "discharge_max_possible" -> discharge_max_possible(b)
      [] f = "do_nothing" -> do_nothing(b)

InUnit(x) == le(Zero, x) /\ le(x, One)

\* The soc is a number and the capacity is not zero, so that no operation divides
\* by zero
Finite(b) == IsFinite(b.soc) /\ IsFinite(b.capacity) /\ b.capacity.n # 0

ValidRatings(b) ==
    /\ gt(b.power, Zero)
    /\ gt(b.capacity, Zero)
    /\ gt(b.eff_chg, Zero) /\ le(b.eff_chg, One)
    /\ gt(b.eff_dch, Zero) /\ le(b.eff_dch, One)

\* C1: since construction or the last reset the four history sequences each hold
\* exactly one element per engine call, and every engine call, whatever its
\* argument, appends exactly one element to each of the four.
C1_HistoryLengths ==
    /\ Len(battery.datetime_curve) = battery.calls
    /\ Len(battery.power_curve) = battery.calls
    /\ Len(battery.energy_curve) = battery.calls
    /\ Len(battery.soc_curve) = battery.calls
    /\ \A f \in EngineOps, x \in Amounts :
        LET r == Engine(battery, f, x)
        IN  /\ r.calls = battery.calls + 1
            /\ Len(r.datetime_curve) = Len(battery.datetime_curve) + 1
            /\ Len(r.power_curve) = Len(battery.power_curve) + 1
            /\ Len(r.energy_curve) = Len(battery.energy_curve) + 1
            /\ Len(r.soc_curve) = Len(battery.soc_curve) + 1

\* C1 witness: three engine calls, charging and discharging, have been recorded.
C1_Witness ==
    /\ battery.calls = 3
    /\ Len(battery.energy_curve) = 3
    /\ \E i, j \in 1..3 : /\ gt(battery.power_curve[i], Zero)
                          /\ lt(battery.power_curve[j], Zero)

\* C2: every engine call stores the soc it found, not the soc it leaves: the soc
\* history after the call is the soc history before it followed by the soc before it.
C2_SocOneStepDelay ==
    \A f \in EngineOps, x \in Amounts :
        Engine(battery, f, x).soc_curve = Append(battery.soc_curve, battery.soc)

\* C2 witness: a charge has changed the soc and the last record holds the old one.
C2_Witness ==
    /\ op = "charge_with_energy"
    /\ battery.calls >= 2
    /\ IsFinite(battery.soc)
    /\ gt(battery.soc, Last(battery.soc_curve))

\* C3: with positive power and capacity ratings and efficiencies in (0, 1] the soc
\* and every recorded soc lie in [0, 1], and every engine call, whatever its
\* argument, made from a soc in [0, 1] leaves the soc in [0, 1].
C3_SocInUnit ==
    ValidRatings(battery) =>
        /\ InUnit(battery.soc)
        /\ \A i \in 1..Len(battery.soc_curve) : InUnit(battery.soc_curve[i])
        /\ \A f \in EngineOps, x \in Amounts : InUnit(Engine(battery, f, x).soc)

\* C3 witness: an oversized charge request was clamped and filled the battery.
C3_Witness ==
    /\ ValidRatings(battery)
    /\ op = "charge_with_energy"
    /\ battery.stdout = MsgExceeds
    /\ battery.soc = One
    /\ \E i \in 1..Len(battery.power_curve) : lt(battery.power_curve[i], Zero)

\* C4 (as claimed): a charge request above the limit is recorded as exactly the
\* limit (energy, and power = limit*60/step), no charge records more than the
\* limit, and the same holds of discharge with its limit and negative sign.
\* Stated for the reachable states in which no division by zero occurs.
C4_Clamping ==
    Finite(battery) => \A x \in Amounts :
        LET climit == max_possible_charging_energy(battery)
            c == charge_with_energy(battery, x, TRUE)
            dlimit == max_possible_discharging_energy(battery)
            d == discharge_with_energy(battery, x, TRUE)
        IN  /\ gt(x, climit) =>
                /\ Last(c.energy_curve) = climit
                /\ Last(c.power_curve) = div(mul(climit, R(60)), R(battery.timestep_minutes))
            /\ le(Last(c.energy_curve), climit)
            /\ gt(x, dlimit) =>
                /\ Last(d.energy_curve) = neg(dlimit)
                /\ Last(d.power_curve) = neg(div(mul(dlimit, R(60)), R(battery.timestep_minutes)))
            /\ le(neg(Last(d.energy_curve)), dlimit)

\* C5 (as claimed): in every reachable state a charge or discharge call, by energy
\* or by power, with a negative amount records power 0 and energy 0 and leaves the
\* soc as it was.  Stated for the reachable states in which no division by zero
\* occurs.
C5_NegativeRequest ==
    Finite(battery) => \A f \in {"charge_with_energy", "charge_with_power",
              "discharge_with_energy", "discharge_with_power"}, x \in Amounts :
        lt(x, Zero) =>
            LET r == Engine(battery, f, x)
            IN  /\ Last(r.power_curve) = Zero
                /\ Last(r.energy_curve) = Zero
                /\ r.soc = battery.soc

\* C6 (as claimed): a charge call moves the soc by +x*chargeEff/capacity, x the
\* energy it recorded; a discharge call moves it by -y/(capacity*dischargeEff),
\* y the magnitude of the energy it recorded.  Stated for the reachable states in
\* which no division by zero occurs.
C6_EnergyConservation ==
    Finite(battery) => \A x \in Amounts :
        LET c == charge_with_energy(battery, x, TRUE)
            d == discharge_with_energy(battery, x, TRUE)
        IN  /\ c.soc = add(battery.soc,
                           div(mul(Last(c.energy_curve), battery.eff_chg), battery.capacity))
            /\ d.soc = sub(battery.soc,
                           div(abs(Last(d.energy_curve)), mul(battery.capacity, battery.eff_dch)))

\* C7 (as claimed): in every reachable state a charge call records
\* 0 <= power <= ratedPower and energy >= 0, and a discharge call records
\* -ratedPower <= power <= 0 and energy <= 0.  Stated for the reachable states in
\* which no division by zero occurs.
C7_SignAndPowerLimit ==
    Finite(battery) => \A x \in Amounts :
        /\ \A f \in ChargeOps :
            LET r == Engine(battery, f, x)
            IN  /\ le(Zero, Last(r.power_curve))
                /\ le(Last(r.power_curve), battery.power)
                /\ ge(Last(r.energy_curve), Zero)
        /\ \A f \in DischargeOps :
            LET r == Engine(battery, f, x)
            IN  /\ le(neg(battery.power), Last(r.power_curve))
                /\ le(Last(r.power_curve), Zero)
                /\ le(Last(r.energy_curve), Zero)

\* C8 (as claimed): do_nothing in any reachable state appends one record with
\* power 0, energy 0, the current soc and the next timestamp, and leaves the soc,
\* the ratings and the earlier records as they were.  Stated for the reachable
\* states in which no division by zero occurs.
C8_DoNothing ==
    LET r == do_nothing(battery)
    IN  Finite(battery) =>
        /\ r.power_curve = Append(battery.power_curve, Zero)
        /\ r.energy_curve = Append(battery.energy_curve, Zero)
        /\ r.soc_curve = Append(battery.soc_curve, battery.soc)
        /\ r.datetime_curve = Append(battery.datetime_curve, next_datetime(battery))
        /\ r.soc = battery.soc
        /\ r.power = battery.power
        /\ r.capacity = battery.capacity
        /\ r.eff_chg = battery.eff_chg
        /\ r.eff_dch = battery.eff_dch
        /\ r.timestep_minutes = battery.timestep_minutes

\* C9: reset in any reachable state empties the four history sequences, sets the
\* soc to 0.5 and leaves ratings, efficiencies, step and start timestamp as they
\* were; the engine call that follows it records the start timestamp.
C9_Reset ==
    LET r == reset(battery)
    IN  /\ r.power_curve = <<>>
        /\ r.energy_curve = <<>>
        /\ r.soc_curve = <<>>
        /\ r.datetime_curve = <<>>
        /\ r.soc = Half
        /\ r.power = battery.power
        /\ r.capacity = battery.capacity
        /\ r.eff_chg = battery.eff_chg
        /\ r.eff_dch = battery.eff_dch
        /\ r.timestep_minutes = battery.timestep_minutes
        /\ r.start_datetime = battery.start_datetime
        /\ \A f \in EngineOps, x \in Amounts :
            Engine(r, f, x).datetime_curve = <<battery.start_datetime>>
        /\ op = "reset" => battery = r

\* C9 witness: a battery whose ratings dimensioning had rewritten and whose history
\* held records has been reset.
C9_Witness ==
    /\ op = "reset"
    /\ battery.power = R(-3)
    /\ battery.capacity = One
    /\ battery.soc = Half
    /\ battery.datetime_curve = <<>>

\* C10 (as claimed): a battery constructed with initial soc s has soc s before its
\* first operation, and its first record holds s.
C10_InitialSoc ==
    op = "__init__" =>
        /\ battery.soc = initial_soc
        /\ \A f \in EngineOps, x \in Amounts :
            Engine(battery, f, x).soc_curve = <<initial_soc>>

\* Half the sum of |soc[i+1] - soc[i]| over the 0-based indices i = 0 .. n-3 of a
\* soc history of length n (here 1-based: k = 1 .. n-2), 0 when n < 2
RECURSIVE WindowSum(_, _)
WindowSum(s, k) ==
    IF k > Len(s) - 2 THEN Zero
    ELSE add(abs(sub(s[k + 1], s[k])), WindowSum(s, k + 1))

EfcWindow(s) == IF Len(s) < 2 THEN Zero ELSE div(WindowSum(s, 1), R(2))

CurveRows(b) ==
    [i \in 1..Len(b.datetime_curve) |->
        <<b.datetime_curve[i], b.soc_curve[i], b.power_curve[i], b.energy_curve[i]>>]

\* The rows of a returned curves table
TableRows(t) ==
    [i \in 1..Len(t) |-> <<t[i].datetime, t[i].soc, t[i].power_output, t[i].energy_output>>]

\* C12 (state part): the i-th row get_battery_curves returns is (datetime[i],
\* soc[i], power[i], energy[i]), and the EFC derived from the returned soc column
\* with the windowing of get_efc equals get_efc of the battery.
C12_Rows ==
    LET t == get_battery_curves(battery)
    IN  /\ TableRows(t) = CurveRows(battery)
        /\ EfcWindow([i \in 1..Len(t) |-> t[i].soc]) = get_efc(battery)
        /\ op = "get_battery_curves" => ret.df = t

\* C12 (step part): a call of get_battery_curves changes nothing in the battery.
C12_Frame ==
    op' = "get_battery_curves" => battery' = battery

\* C12: in every reachable state get_battery_curves returns the four sequences as
\* rows and changes nothing in the battery, and the EFC re-derived from the
\* returned soc column equals get_efc computed from the battery.
C12_CurvesProjection == [](C12_Rows) /\ [][C12_Frame]_vars

\* C12 witness: the table of a history of three records with a non-zero EFC has
\* been returned.
C12_Witness ==
    /\ op = "get_battery_curves"
    /\ Len(ret.df) = 3
    /\ ret.df[2].soc # ret.df[1].soc
    /\ lt(ret.df[3].power_output, Zero)
    /\ gt(get_efc(battery), Zero)

\* The price lists the arbitrage properties are stated for
PriceLists == SeqsUpTo(Prices, MaxCurve) \cup {<<>>, <<R(10), R(100), R(50)>>}

\* C13: arbitrage called with buy_price >= sell_price raises before it processes
\* any price: it returns no table, appends no record and leaves the battery (soc,
\* ratings, history) as it was, for every price list and every battery state.
C13_ArbitrageRejects ==
    /\ \A price_list \in PriceLists, t \in Thresholds :
        ge(t[1], t[2]) =>
            LET r == arbitrage(battery, price_list, t[1], t[2])
            IN  /\ r.ret.raised = "ValueError"
                /\ r.ret.df = <<>>
                /\ r.battery = battery
    /\ (op = "arbitrage" /\ ret.raised = "ValueError") => ret.df = <<>>

\* C13 witness: arbitrage has raised on a battery that holds a history.
C13_Witness ==
    /\ op = "arbitrage"
    /\ ret.raised = "ValueError"
    /\ ret.df = <<>>
    /\ Len(battery.datetime_curve) >= 1
    /\ battery.soc # Half

\* Threshold pairs with buy_price < sell_price; the second has prices on the
\* thresholds themselves
OrderedThresholds == {<<R(20), R(80)>>, <<R(10), R(100)>>}

\* C14: for a price list of length n and buy_price < sell_price arbitrage appends
\* n records to the history, one per price in input order (by charge_max_possible
\* for a price <= buy_price, discharge_max_possible for a price >= sell_price,
\* do_nothing otherwise), and returns one row per price that is <= buy_price (buy)
\* or >= sell_price (sell), in input order, none for a price strictly between; a
\* row carries the timestamp of the record made for its price, volume =
\* energy/1000 and revenue = -energy*price/1000.
C14_ArbitrageRows ==
    \A price_list \in PriceLists, t \in OrderedThresholds :
        LET base == Len(battery.datetime_curve)
            n == Len(price_list)
            Trades(i) == le(price_list[i], t[1]) \/ ge(price_list[i], t[2])
            idx == SelectSeq([i \in 1..n |-> i], Trades)
        IN  \A r \in {arbitrage(battery, price_list, t[1], t[2])},
               after \in {[i \in 0..n |->
                             arbitrage(battery, SubSeq(price_list, 1, i), t[1], t[2]).battery]} :
            /\ r.ret.raised = ""
            /\ Len(r.battery.datetime_curve) = base + n
            /\ Len(r.battery.power_curve) = base + n
            /\ Len(r.battery.energy_curve) = base + n
            /\ Len(r.battery.soc_curve) = base + n
            /\ SubSeq(r.battery.energy_curve, 1, base) = battery.energy_curve
            /\ after[0] = battery
            /\ after[n] = r.battery
            /\ \A i \in 1..n :
                after[i] = IF le(price_list[i], t[1]) THEN charge_max_possible(after[i - 1])
                           ELSE IF ge(price_list[i], t[2]) THEN discharge_max_possible(after[i - 1])
                           ELSE do_nothing(after[i - 1])
            /\ Len(r.ret.df) = Len(idx)
            /\ \A k \in 1..Len(idx) :
                LET i == idx[k]
                    row == r.ret.df[k]
                    energy == r.battery.energy_curve[base + i]
                IN  /\ row.price_eur_per_MWh = price_list[i]
                    /\ row.transaction_type = IF le(price_list[i], t[1]) THEN "buy" ELSE "sell"
                    /\ row.datetime = r.battery.datetime_curve[base + i]
                    /\ row.volume_MWh = div(energy, R(1000))
                    /\ row.revenue_eur = div(mul(neg(energy), price_list[i]), R(1000))

\* C14 witness: arbitrage over a price between the thresholds and a price above
\* them has returned the one sell row, stamped with the second record.
C14_Witness ==
    /\ op = "arbitrage"
    /\ ret.raised = ""
    /\ Len(ret.df) = 1
    /\ battery.calls = 2
    /\ ret.df[1].transaction_type = "sell"
    /\ ret.df[1].datetime = battery.datetime_curve[2]
    /\ battery.power_curve[1] = Zero
    /\ lt(battery.energy_curve[2], Zero)
    /\ gt(ret.df[1].revenue_eur, Zero)

\* The loadcurve of length n that is flat at the value v
Flat(n, v) == [i \in 1..n |-> v]

\* C15 (as claimed): peakshaving on a flat loadcurve whose every value equals
\* peak_limit, from any battery state, records battery power 0 at every step and
\* leaves the soc as it was: the soc recorded at every step and the soc after the
\* run equal the soc before the call.
C15_FlatPeakshaving ==
    \A n \in 1..MaxCurve, peak_limit \in PeakLimits :
        \A r \in {peakshaving(battery, Flat(n, peak_limit), peak_limit)} :
            /\ \A i \in 1..n : /\ r.ret.df[i].battery_power = Zero
                               /\ r.ret.df[i].battery_soc = battery.soc
            /\ r.battery.soc = battery.soc

\* The new loadcurve of a peakshaving result exceeds the limit somewhere
ObjectiveNotMet(df, peak_limit) ==
    \E i \in 1..Len(df) : gt(df[i].new_loadcurve, peak_limit)

\* C16 (as claimed): peakshaving signals an advisory exactly when the finished run
\* has max(new load) > peak_limit, and then still returns the complete table
\* without raising.
C16_ObjectiveNotMetAdvisory ==
    \A loadcurve \in SeqsUpTo(Loads, MaxCurve), peak_limit \in PeakLimits :
        \A r \in {peakshaving(battery, loadcurve, peak_limit)} :
            /\ r.ret.raised = ""
            /\ Len(r.ret.df) = Len(loadcurve)
            /\ ObjectiveNotMet(r.ret.df, peak_limit) <=> r.battery.stdout # ""

\* The height of the spike above the limit
SpikeHeight == R(50)

\* The loadcurves of length 1..k flat at peak_limit except for one step at
\* peak_limit + 50
SpikeCurves(k, peak_limit) ==
    {[i \in 1..n |-> IF i = p THEN add(peak_limit, SpikeHeight) ELSE peak_limit] :
        <<n, p>> \in {np \in (1..k) \X (1..k) : np[2] <= np[1]}}

\* C17 (as claimed): for every loadcurve flat at peak_limit except for one step at
\* peak_limit + 50, wherever the spike is, dimensioning.peakshaving reports power
\* >= 50 and leaves ratings with which peakshaving of the same loadcurve keeps
\* every new load <= peak_limit.
C17_SpikeDimensioning ==
    \A peak_limit \in PeakLimits :
        \A loadcurve \in SpikeCurves(MaxLen, peak_limit) :
            \A d \in {dimensioning_peakshaving(battery, loadcurve, peak_limit)} :
                /\ d.ret.raised = ""
                /\ ge(d.ret.report[1].needed_power, SpikeHeight)
                /\ \A r \in {peakshaving(d.battery, loadcurve, peak_limit)} :
                    \A i \in 1..Len(loadcurve) : le(r.ret.df[i].new_loadcurve, peak_limit)

\* The battery as dimensioning.peakshaving sets it up for its probing run, and
\* the battery after that run
Probing(b, loadcurve, peak_limit) ==
    peakshaving([reset(b) EXCEPT !.soc = One,
                                 !.power = ceil(sub(max_of(loadcurve), peak_limit)),
                                 !.capacity = R(Sentinel)],
                loadcurve, peak_limit).battery

\* The lowest soc the battery has been at: the socs its records hold and the soc
\* it has now
MinSocReached(b) == min_of(Append(b.soc_curve, b.soc))

\* C18 (as claimed): after dimensioning.peakshaving the rated power is
\* ceil(max(loadcurve) - peak_limit) and the capacity is
\* ceil((1 - minSoc) * sentinel), minSoc the lowest soc the battery reached during
\* the probing run; these are the values reported.
C18_DimensionedRatings ==
    \A loadcurve \in SeqsUpTo(Loads, MaxCurve), peak_limit \in PeakLimits :
        \A d \in {dimensioning_peakshaving(battery, loadcurve, peak_limit)},
           probe \in {Probing(battery, loadcurve, peak_limit)} :
            /\ d.battery.power = ceil(sub(max_of(loadcurve), peak_limit))
            /\ d.battery.capacity = ceil(mul(sub(One, MinSocReached(probe)), R(Sentinel)))
            /\ d.ret.report[1].needed_power = d.battery.power
            /\ d.ret.report[1].needed_capacity = d.battery.capacity

\* C19: dimensioning.peakshaving on a loadcurve of length n makes 2n engine calls
\* in two passes with a reset between them; on return the history holds n records,
\* those of a peakshaving run from a reset battery with the derived power and
\* capacity, whatever history the battery held before.
C19_TwoPasses ==
    /\ \A loadcurve \in SeqsUpTo(Loads, MaxCurve), peak_limit \in PeakLimits :
        \A d \in {dimensioning_peakshaving(battery, loadcurve, peak_limit)} :
            /\ d.ret.report[1].engine_calls = 2 * Len(loadcurve)
            /\ d.battery.calls = Len(loadcurve)
            /\ Len(d.battery.datetime_curve) = Len(loadcurve)
            /\ Len(d.battery.power_curve) = Len(loadcurve)
            /\ Len(d.battery.energy_curve) = Len(loadcurve)
            /\ Len(d.battery.soc_curve) = Len(loadcurve)
            /\ d.battery = peakshaving([reset(battery) EXCEPT
                                            !.power = d.battery.power,
                                            !.capacity = d.battery.capacity],
                                       loadcurve, peak_limit).battery
    /\ op = "dimensioning.peakshaving" =>
        /\ ret.report[1].engine_calls = 2 * Len(battery.datetime_curve)
        /\ battery.calls = Len(battery.datetime_curve)

\* C19 witness: dimensioning.peakshaving has returned from a loadcurve of two
\* steps: four engine calls, two records, the first stamped with the start.
C19_Witness ==
    /\ op = "dimensioning.peakshaving"
    /\ ret.report[1].engine_calls = 4
    /\ Len(battery.power_curve) = 2
    /\ battery.datetime_curve[1] = battery.start_datetime
    /\ battery.power = ret.report[1].needed_power
    /\ battery.capacity = ret.report[1].needed_capacity
    /\ lt(battery.power_curve[1], Zero)

\* C20: between resets the first engine call records start_datetime and every
\* later call the previous timestamp plus timestep_minutes, so datetime_curve[i] =
\* start_datetime + i*timestep_minutes (i from 0) and the timestamps strictly
\* increase, whichever calls made the records.
C20_Timestamps ==
    /\ \A i \in 1..Len(battery.datetime_curve) :
        battery.datetime_curve[i] = battery.start_datetime + (i - 1) * battery.timestep_minutes
    /\ \A i, j \in 1..Len(battery.datetime_curve) :
        i < j => battery.datetime_curve[i] < battery.datetime_curve[j]
    /\ \A f \in EngineOps, x \in Amounts :
        Engine(battery, f, x).datetime_curve =
            Append(battery.datetime_curve,
                   IF battery.datetime_curve = <<>> THEN battery.start_datetime
                   ELSE Last(battery.datetime_curve) + battery.timestep_minutes)

\* C20 witness: a charge, a discharge and an idle step have been recorded one
\* step apart.
C20_Witness ==
    /\ op \in EngineOps
    /\ Len(battery.datetime_curve) = 3
    /\ battery.datetime_curve[3] = battery.start_datetime + 2 * battery.timestep_minutes
    /\ \E i, j, k \in 1..3 : /\ gt(battery.power_curve[i], Zero)
                             /\ lt(battery.power_curve[j], Zero)
                             /\ battery.power_curve[k] = Zero

\* The series the dispatch properties are stated for: values below, at and above
\* the limit
DispatchCurves == SeqsUpTo(Loads \cup PeakLimits, MaxCurve) \cup {<<>>}

\* C21: curtailment_avoidance sets the soc to 0 before the first step, then for
\* each production value in order charges with production - peak_limit when
\* production > peak_limit and otherwise discharges with peak_limit - production,
\* appending one record and one row per step with new_production = production -
\* battery power; with positive ratings new_production <= peak_limit on every step
\* where production <= peak_limit.
C21_CurtailmentAvoidance ==
    \A production_curve \in DispatchCurves, peak_limit \in PeakLimits :
        LET base == Len(battery.datetime_curve)
            n == Len(production_curve)
        IN  \A r \in {curtailment_avoidance(battery, production_curve, peak_limit)},
               after \in {[i \in 0..n |->
                             curtailment_avoidance(battery, SubSeq(production_curve, 1, i),
                                                   peak_limit).battery]} :
            /\ r.ret.raised = ""
            /\ after[0] = [battery EXCEPT !.soc = Zero]
            /\ after[n] = r.battery
            /\ \A i \in 1..n :
                after[i] =
                    IF gt(production_curve[i], peak_limit)
                    THEN charge_with_power(after[i - 1],
                                           sub(production_curve[i], peak_limit), FALSE)
                    ELSE discharge_with_power(after[i - 1],
                                              sub(peak_limit, production_curve[i]), FALSE)
            /\ Len(r.battery.datetime_curve) = base + n
            /\ Len(r.battery.power_curve) = base + n
            /\ n >= 1 => r.battery.soc_curve[base + 1] = Zero
            /\ Len(r.ret.df) = n
            /\ \A i \in 1..n :
                /\ r.ret.df[i].original_production = production_curve[i]
                /\ r.ret.df[i].battery_power = r.battery.power_curve[base + i]
                /\ r.ret.df[i].battery_soc = r.battery.soc_curve[base + i]
                /\ r.ret.df[i].datetime = r.battery.datetime_curve[base + i]
                /\ r.ret.df[i].new_production =
                       sub(production_curve[i], r.battery.power_curve[base + i])
                /\ (ValidRatings(battery) /\ le(production_curve[i], peak_limit)) =>
                       le(r.ret.df[i].new_production, peak_limit)

\* C21 witness: curtailment_avoidance has charged the surplus of a first step and
\* fed it back in a second step without exceeding the limit.
C21_Witness ==
    /\ op = "curtailment_avoidance"
    /\ ValidRatings(battery)
    /\ Len(ret.df) = 2
    /\ gt(ret.df[1].battery_power, Zero)
    /\ lt(ret.df[2].battery_power, Zero)
    /\ ret.df[1].battery_soc = Zero
    /\ gt(ret.df[2].new_production, ret.df[2].original_production)
    /\ le(ret.df[2].new_production, R(3))

\* The production and load series the loadfollowing property is stated for
FollowingCurves == SeqPairs(Productions, Loads \cup PeakLimits, MaxCurve)

\* C22 (as claimed): loadfollowing runs peakshaving, from soc 1.0, on the curve
\* load - production shifted up by s = |min(load - production)| with limit s, and
\* returns one row per step whose uncovered load is max(0, new load - s); every
\* uncovered load is >= 0 and at most max(0, load - production).  Stated for the
\* reachable states in which no division by zero occurs.
C22_Loadfollowing ==
    Finite(battery) =>
    \A c \in FollowingCurves :
        LET production_curve == c[1]
            loadcurve == c[2]
            n == Len(loadcurve)
            base == Len(battery.datetime_curve)
            equiv == [i \in 1..n |-> sub(loadcurve[i], production_curve[i])]
            s == abs(min_of(equiv))
        IN  \A r \in {loadfollowing(battery, production_curve, loadcurve)},
               ps \in {peakshaving(battery, [i \in 1..n |-> add(equiv[i], s)], s)} :
            /\ r.ret.raised = ""
            /\ r.battery = ps.battery
            /\ r.battery.soc_curve[base + 1] = One
            /\ Len(r.ret.df) = n
            /\ \A i \in 1..n :
                /\ r.ret.df[i].original_loadcurve = loadcurve[i]
                /\ r.ret.df[i].uncovered_loadcurve =
                       max2(Zero, sub(ps.ret.df[i].new_loadcurve, s))
                /\ ge(r.ret.df[i].uncovered_loadcurve, Zero)
                /\ le(r.ret.df[i].uncovered_loadcurve, max2(Zero, equiv[i]))

\* C23: with positive power and capacity ratings, for every loadcurve and
\* peak_limit the peakshaving result has load <= new load <= peak_limit on every
\* step with load <= peak_limit, and peak_limit <= new load <= load on every step
\* with load > peak_limit.
C23_PeakshavingBounds ==
    ValidRatings(battery) =>
    \A loadcurve \in DispatchCurves, peak_limit \in PeakLimits :
        \A r \in {peakshaving(battery, loadcurve, peak_limit)} :
            /\ Len(r.ret.df) = Len(loadcurve)
            /\ \A i \in 1..Len(loadcurve) :
                LET load == loadcurve[i]
                    new == r.ret.df[i].new_loadcurve
                IN  /\ new = add(load, r.ret.df[i].battery_power)
                    /\ IF le(load, peak_limit)
                       THEN le(load, new) /\ le(new, peak_limit)
                       ELSE le(peak_limit, new) /\ le(new, load)

\* C23 witness: peakshaving has shaved a peak down to the limit and then
\* recharged under a low load without passing the limit.
C23_Witness ==
    /\ op = "peakshaving"
    /\ ValidRatings(battery)
    /\ Len(ret.df) = 2
    /\ gt(ret.df[1].original_loadcurve, R(3))
    /\ ret.df[1].new_loadcurve = R(3)
    /\ lt(ret.df[2].original_loadcurve, R(3))
    /\ gt(ret.df[2].new_loadcurve, ret.df[2].original_loadcurve)
    /\ le(ret.df[2].new_loadcurve, R(3))

\* C24 (as claimed): after any sequence of engine calls and dispatch-strategy calls
\* since the last reset every consecutive pair of records has soc_curve[i+1] =
\* soc_curve[i] + energy[i]*chargeEff/capacity when energy[i] >= 0 and
\* soc_curve[i+1] = soc_curve[i] + energy[i]/(capacity*dischargeEff) when
\* energy[i] < 0: the recorded soc never jumps without a recorded energy flow.
C24_HistoryContinuity ==
    \A i \in 1..(Len(battery.soc_curve) - 1) :
        battery.soc_curve[i + 1] =
            IF ge(battery.energy_curve[i], Zero)
            THEN add(battery.soc_curve[i],
                     div(mul(battery.energy_curve[i], battery.eff_chg), battery.capacity))
            ELSE add(battery.soc_curve[i],
                     div(battery.energy_curve[i], mul(battery.capacity, battery.eff_dch)))

\* No load of the loadcurve exceeds the limit
NeverExceeds(loadcurve, peak_limit) ==
    \A i \in 1..Len(loadcurve) : le(loadcurve[i], peak_limit)

\* C25 (as claimed): for every loadcurve and peak_limit, those that never exceed
\* the limit included, dimensioning.peakshaving leaves the battery with rated power
\* >= 0 and capacity >= 0, and when no load exceeds peak_limit the derived
\* capacity is 0.
C25_DimensionedNonNegative ==
    \A loadcurve \in SeqsUpTo(Loads \cup PeakLimits, MaxCurve), peak_limit \in PeakLimits :
        \A d \in {dimensioning_peakshaving(battery, loadcurve, peak_limit)} :
            /\ ge(d.battery.power, Zero)
            /\ ge(d.battery.capacity, Zero)
            /\ NeverExceeds(loadcurve, peak_limit) =>
                /\ d.battery.capacity = Zero
                /\ d.ret.report[1].needed_capacity = Zero

====
